---- MODULE Spec2Model ----
(***************************************************************************)
(* Anachro Mouse (amouse), Linux build: the USB-to-serial mouse adaptor.   *)
(* The model covers the identification handshake (serial.c), the event     *)
(* aggregation, packet encoding and rate-limited flush of the main loop    *)
(* (amouse.c) and the helpers they use (utils.c).                          *)
(***************************************************************************)
EXTENDS Integers, Sequences, FiniteSets, TLC

VARIABLES
  opts,         \* struct opts: wheel, immediate (amouse.c:55-62)
  mouse,        \* mouse_state_t mouse (amouse.c:65-71, 221)
  ev,           \* struct input_event ev, the event read last (amouse.c:186)
  inq,          \* events waiting in the evdev device, oldest first
  narrived,     \* number of events the device has delivered so far
  nflush,       \* number of times the flush block has run
  clock,        \* CLOCK_MONOTONIC, as a timespec
  nticks,       \* number of clock advances so far
  time_target,  \* struct timespec time_target (amouse.c:219)
  pc,           \* position of main() / mouse_ident()
  wire,         \* bytes written to the serial fd by the latest program step
  last,         \* what the latest program step completed: none / ident / flush
  seen,         \* the get_pin polls that ended the waits of the running mouse_ident
  prev,         \* the latest flush: the clock when it wrote, the bytes written
  argv,         \* the option letters of the command line (parse_opts)
  optind        \* how many of them getopt has returned

vars == <<opts, mouse, ev, inq, narrived, nflush, clock, nticks, time_target,
          pc, wire, last, seen, prev, argv, optind>>

(***************************************************************************)
(* Bounds of the model.                                                    *)
(***************************************************************************)
MaxEvents == 2
MaxQueue == 1
MaxTicks == 4
MaxPolls == 2        \* get_pin calls made in a run of PinSpec
MaxArgs == 4         \* options on the command line in a run of ParseSpec

(***************************************************************************)
(* Constants of include/serial.h: the button bits of the Microsoft serial   *)
(* mouse wire format, and the packet delays of the timing comment of       *)
(* get_target_time (serial.c:143-146): 7.5 ms per byte at 1200 baud.       *)
(***************************************************************************)
MOUSE_LMB_BIT == 5
MOUSE_RMB_BIT == 4
MOUSE_MMB_BIT == 4
NS_FULL_SECOND == 1000000000
SERIALDELAY_3B == 22500000
SERIALDELAY_4B == 30000000

(***************************************************************************)
(* C integer operations.  A mask never exceeds 0xff, so x & mask only      *)
(* reads the low byte of the two's complement of x, which is x mod 256.    *)
(***************************************************************************)
RECURSIVE AndNat(_, _)
AndNat(a, b) ==
  IF a = 0 \/ b = 0 THEN 0
  ELSE (a % 2) * (b % 2) + 2 * AndNat(a \div 2, b \div 2)

RECURSIVE OrNat(_, _)
OrNat(a, b) ==
  IF a = 0 THEN b
  ELSE IF b = 0 THEN a
  ELSE (IF a % 2 = 1 \/ b % 2 = 1 THEN 1 ELSE 0) + 2 * OrNat(a \div 2, b \div 2)

BitAnd(x, mask) == AndNat(x % 256, mask)

RECURSIVE Pow2(_)
Pow2(n) == IF n = 0 THEN 1 ELSE 2 * Pow2(n - 1)

ShiftLeft(x, n) == x * Pow2(n)

\* uint8_t b |= v : the int result of the OR is truncated to 8 bits
OrAssignU8(b, v) == OrNat(b, v % 256)

(***************************************************************************)
(* utils.c                                                                 *)
(***************************************************************************)
clamp(value, min, max) ==
  IF value > max THEN max
  ELSE IF value < min THEN min
  ELSE value

(***************************************************************************)
(* serial.c                                                                *)
(***************************************************************************)
\* uint8_t pkt_intellimouse_intro[] = "\x4D\x5A": the array takes the string
\* literal with its terminating NUL, so sizeof is 3.
pkt_intellimouse_intro == <<77, 90, 0>>

SizeofIntro == Len(pkt_intellimouse_intro)

\* writes buffer[0 .. size-1], one byte at a time, in order
serial_write(buffer, size) == SubSeq(buffer, 1, size)

TIOCM_CTS == {"CTS"}
TIOCM_DSR == {"DSR"}
PinRegisters == SUBSET {"CTS", "DSR"}

\* get_pin answering 0 when the ioctl fails
get_pin_fail_as_low(serial_state, flag, ok) ==
  IF ok /\ (serial_state \cap flag) # {} THEN 1 ELSE 0

\* get_pin answering 1 only when every line of the mask is set
get_pin_all_bits(serial_state, flag, ok) ==
  IF ~ok THEN -1
  ELSE IF flag \subseteq serial_state THEN 1 ELSE 0

\* serial_state: the TIOCMGET register; ok: whether the ioctl succeeded
get_pin(serial_state, flag, ok) ==
  IF ~ok THEN -1
  ELSE IF (serial_state \cap flag) # {} THEN 1 ELSE 0

\* what one call of get_pin saw and returned; when the ioctl fails
\* serial_state keeps its initial value 0
Poll(serial_state, flag, ok) ==
  [reg  |-> IF ok THEN serial_state ELSE {},
   flag |-> flag,
   ok   |-> ok,
   ret  |-> get_pin(serial_state, flag, ok)]

IdentBytes(wheel_enabled) ==
  IF wheel_enabled # 0
    THEN serial_write(pkt_intellimouse_intro, SizeofIntro)
    ELSE serial_write(pkt_intellimouse_intro, 1)

\* a slip that borrows a second whether or not the nanoseconds went negative
timespec_diff_always_borrow(ts1, ts2) ==
  [tv_sec |-> ts1.tv_sec - ts2.tv_sec - 1,
   tv_nsec |-> (ts1.tv_nsec - ts2.tv_nsec) % NS_FULL_SECOND]

timespec_diff(ts1, ts2) ==
  LET sec  == ts1.tv_sec - ts2.tv_sec
      nsec == ts1.tv_nsec - ts2.tv_nsec
  IN  IF nsec < 0
        THEN [tv_sec |-> sec - 1, tv_nsec |-> nsec + NS_FULL_SECOND]
        ELSE [tv_sec |-> sec, tv_nsec |-> nsec]

\* time: the clock as read by clock_gettime inside get_target_time
get_target_time(time, delay) ==
  LET now_nsec == time.tv_nsec
      nsec     == (time.tv_nsec + delay) % NS_FULL_SECOND
  IN  [tv_sec  |-> IF nsec < now_nsec THEN time.tv_sec + 1 ELSE time.tv_sec,
       tv_nsec |-> nsec]

(***************************************************************************)
(* amouse.c                                                                *)
(***************************************************************************)
init_mouse_state == <<64, 0, 0, 0>>

push_update(m, full_packet) ==
  IF full_packet # 0 \/ m.update = 3
    THEN [m EXCEPT !.update = 3]
    ELSE [m EXCEPT !.update = 2]

Event(t, c, v) == [type |-> t, code |-> c, value |-> v]

\* a slip that leaves force_update alone on a right-button event
HandleKey_no_force_rmb(m, e, wheel_opt) ==
  CASE e.code = "BTN_LEFT" ->
         push_update([m EXCEPT !.lmb = e.value, !.force_update = 1], m.mmb)
    [] e.code = "BTN_RIGHT" ->
         push_update([m EXCEPT !.rmb = e.value], m.mmb)
    [] e.code = "BTN_MIDDLE" ->
         IF wheel_opt # 0
           THEN push_update([m EXCEPT !.mmb = e.value, !.force_update = 1], 1)
           ELSE m
    [] OTHER -> m

\* EV_KEY branch of the event dispatch
HandleKey(m, e, wheel_opt) ==
  CASE e.code = "BTN_LEFT" ->
         push_update([m EXCEPT !.lmb = e.value, !.force_update = 1], m.mmb)
    [] e.code = "BTN_RIGHT" ->
         push_update([m EXCEPT !.rmb = e.value, !.force_update = 1], m.mmb)
    [] e.code = "BTN_MIDDLE" ->
         IF wheel_opt # 0
           THEN push_update([m EXCEPT !.mmb = e.value, !.force_update = 1], 1)
           ELSE m
    [] OTHER -> m

\* EV_REL branch of the event dispatch, with its trailing push_update
HandleRel(m, e, wheel_opt) ==
  LET m1 ==
        CASE e.code = "REL_X" ->
               [m EXCEPT !.x = clamp(m.x + e.value, -127, 127)]
          [] e.code = "REL_Y" ->
               [m EXCEPT !.y = clamp(m.y + e.value, -127, 127)]
          [] e.code = "REL_WHEEL" ->
               IF wheel_opt # 0
                 THEN push_update(
                        [m EXCEPT !.wheel = clamp(m.wheel + e.value, -15, 15)], 1)
                 ELSE m
          [] OTHER -> m
  IN  push_update(m1, m1.mmb)

Dispatch(m, e, wheel_opt) ==
  IF e.type = "EV_KEY" THEN HandleKey(m, e, wheel_opt)
  ELSE IF e.type = "EV_REL" THEN HandleRel(m, e, wheel_opt)
  ELSE m

\* a slip that leaves force_update out of the flush test
FlushCondition_no_force(diff, m) ==
  diff.tv_sec < 0 /\ m.update > -1

FlushCondition(diff, m) ==
  (diff.tv_sec < 0 /\ m.update > -1) \/ m.force_update # 0

\* a slip that shifts the upper Y bits like the upper X bits (>> 6)
EncodePacket_y_shift6(m) ==
  LET b0a == OrAssignU8(m.state[1], ShiftLeft(m.lmb, MOUSE_LMB_BIT))
      b0b == OrAssignU8(b0a, ShiftLeft(m.rmb, MOUSE_RMB_BIT))
      b3a == OrAssignU8(m.state[4], ShiftLeft(m.mmb, MOUSE_MMB_BIT))
      mx  == BitAnd(m.x, 192)
      b0c == OrAssignU8(b0b, mx \div 64)
      b1  == OrAssignU8(m.state[2], BitAnd(m.x, 63))
      my  == BitAnd(m.y, 192)
      b0d == OrAssignU8(b0c, my \div 64)
      b2  == OrAssignU8(m.state[3], BitAnd(m.y, 63))
      b3  == OrAssignU8(b3a, BitAnd(-m.wheel, 15))
  IN  <<b0d, b1, b2, b3>>

\* a slip that encodes the wheel delta without negating it
EncodePacket_wheel_not_negated(m) ==
  LET b0a == OrAssignU8(m.state[1], ShiftLeft(m.lmb, MOUSE_LMB_BIT))
      b0b == OrAssignU8(b0a, ShiftLeft(m.rmb, MOUSE_RMB_BIT))
      b3a == OrAssignU8(m.state[4], ShiftLeft(m.mmb, MOUSE_MMB_BIT))
      mx  == BitAnd(m.x, 192)
      b0c == OrAssignU8(b0b, mx \div 64)
      b1  == OrAssignU8(m.state[2], BitAnd(m.x, 63))
      my  == BitAnd(m.y, 192)
      b0d == OrAssignU8(b0c, my \div 16)
      b2  == OrAssignU8(m.state[3], BitAnd(m.y, 63))
      b3  == OrAssignU8(b3a, BitAnd(m.wheel, 15))
  IN  <<b0d, b1, b2, b3>>

\* the packet buffer after the encoding statements
EncodePacket(m) ==
  LET b0a == OrAssignU8(m.state[1], ShiftLeft(m.lmb, MOUSE_LMB_BIT))
      b0b == OrAssignU8(b0a, ShiftLeft(m.rmb, MOUSE_RMB_BIT))
      b3a == OrAssignU8(m.state[4], ShiftLeft(m.mmb, MOUSE_MMB_BIT))
      mx  == BitAnd(m.x, 192)
      b0c == OrAssignU8(b0b, mx \div 64)
      b1  == OrAssignU8(m.state[2], BitAnd(m.x, 63))
      my  == BitAnd(m.y, 192)
      b0d == OrAssignU8(b0c, my \div 16)
      b2  == OrAssignU8(m.state[3], BitAnd(m.y, 63))
      b3  == OrAssignU8(b3a, BitAnd(-m.wheel, 15))
  IN  <<b0d, b1, b2, b3>>

\* for(i=0; i <= mouse.update; i++) write(fd, &mouse.state[i], 1)
SentBytes(m) == SubSeq(m.state, 1, m.update + 1)

\* a slip that always waits the 3-byte time
NextDelay_always_3B(m) == SERIALDELAY_3B

NextDelay(m) == IF m.mmb # 0 THEN SERIALDELAY_4B ELSE SERIALDELAY_3B

\* a slip that clears the button latches together with the accumulators
ResetAfterFlush_clears_buttons(m) ==
  [m EXCEPT !.update = -1, !.force_update = 0,
            !.x = 0, !.y = 0, !.wheel = 0,
            !.lmb = 0, !.rmb = 0, !.mmb = 0,
            !.state = init_mouse_state]

ResetAfterFlush(m) ==
  [m EXCEPT !.update = -1, !.force_update = 0,
            !.x = 0, !.y = 0, !.wheel = 0,
            !.state = init_mouse_state]

(***************************************************************************)
(* The environment: what the evdev device can deliver, how the monotonic   *)
(* clock advances, and what main's automatic variable `mouse` can hold     *)
(* before anything is stored in it.                                        *)
(***************************************************************************)
Events ==
  { Event("EV_KEY", "BTN_LEFT", 1),   Event("EV_KEY", "BTN_LEFT", 0),
    Event("EV_KEY", "BTN_RIGHT", 1),
    Event("EV_KEY", "BTN_MIDDLE", 1), Event("EV_KEY", "BTN_MIDDLE", 0),
    Event("EV_KEY", "BTN_SIDE", 1),
    Event("EV_REL", "REL_X", 100),    Event("EV_REL", "REL_X", -200),
    Event("EV_REL", "REL_Y", -127),
    Event("EV_REL", "REL_WHEEL", 15), Event("EV_REL", "REL_WHEEL", -1),
    Event("EV_REL", "REL_HWHEEL", 1),
    Event("EV_SYN", "SYN_REPORT", 0) }

NoEvent == Event("none", "none", 0)

ClockSteps == {12000000}

ClockStarts ==
  { [tv_sec |-> 0, tv_nsec |-> 0], [tv_sec |-> 0, tv_nsec |-> 990000000] }

AddNanos(t, d) ==
  LET n == t.tv_nsec + d
  IN  [tv_sec |-> t.tv_sec + (n \div NS_FULL_SECOND), tv_nsec |-> n % NS_FULL_SECOND]

\* `mouse_state_t mouse;` is an automatic variable: only mouse.state is
\* stored before the loop (memcpy); every other field holds whatever the
\* stack held.  The model takes an all-zero and a non-zero stack content.
UninitMouse ==
  { [x |-> 0, y |-> 0, wheel |-> 0, update |-> 0,
     lmb |-> 0, rmb |-> 0, mmb |-> 0, force_update |-> 0],
    [x |-> 300, y |-> -300, wheel |-> 40, update |-> 7,
     lmb |-> 7, rmb |-> 2, mmb |-> 1, force_update |-> 1] }

MouseAtEntry(u) ==
  [state |-> init_mouse_state, x |-> u.x, y |-> u.y, wheel |-> u.wheel,
   update |-> u.update, lmb |-> u.lmb, rmb |-> u.rmb, mmb |-> u.mmb,
   force_update |-> u.force_update]

(***************************************************************************)
\* no flush has happened yet
NoFlush == [at |-> [tv_sec |-> 0, tv_nsec |-> 0], len |-> -1]

\* struct opts as main() can hold it once parse_opts has returned: both
\* paths given; debug and exclusive do not reach the modelled code
ParsedOpts ==
  [mousepath : {1}, serialpath : {1}, wheel : {0, 1}, exclusive : {1},
   immediate : {0, 1}, debug : {0}]

(***************************************************************************)
(* main(): the state when the program reaches the immediate-ident test,    *)
(* after the packet buffer and time_target have been set.                  *)
(***************************************************************************)
Init ==
  /\ opts \in ParsedOpts
  /\ \E u \in UninitMouse : mouse = MouseAtEntry(u)
  /\ ev = NoEvent
  /\ inq = <<>>
  /\ narrived = 0
  /\ nflush = 0
  /\ clock \in ClockStarts
  /\ nticks = 0
  /\ time_target = get_target_time(clock, SERIALDELAY_3B)
  /\ pc = "start"
  /\ wire = <<>>
  /\ last = "none"
  /\ seen = <<>>
  /\ prev = NoFlush
  /\ argv = <<>>
  /\ optind = 0

\* if(options->immediate) mouse_ident(...)
Start ==
  /\ pc = "start"
  /\ pc' = IF opts.immediate # 0 THEN "ident_write" ELSE "head"
  /\ wire' = <<>>
  /\ last' = "none"
  /\ seen' = <<>>
  /\ UNCHANGED <<opts, mouse, ev, inq, narrived, nflush, clock, nticks, time_target,
                 prev, argv, optind>>

\* loop head: mouse.update = -1, then the re-identification test
LoopHead ==
  /\ pc = "head"
  /\ mouse' = [mouse EXCEPT !.update = -1]
  /\ \E reg \in PinRegisters, ok \in BOOLEAN :
       pc' = IF get_pin(reg, TIOCM_CTS \cup TIOCM_DSR, ok) = 0 /\ opts.immediate = 0
               THEN "wait_low"
               ELSE "read"
  /\ wire' = <<>>
  /\ last' = "none"
  /\ seen' = <<>>
  /\ UNCHANGED <<opts, ev, inq, narrived, nflush, clock, nticks, time_target,
                 prev, argv, optind>>

\* mouse_ident: wait_pin_state(fd, TIOCM_CTS | TIOCM_DSR, 0), one poll
WaitPinLow ==
  /\ pc = "wait_low"
  /\ \E reg \in PinRegisters, ok \in BOOLEAN :
       LET p == Poll(reg, TIOCM_CTS \cup TIOCM_DSR, ok)
       IN  /\ seen' = IF p.ret = 0 THEN <<p>> ELSE seen
           /\ pc' = IF p.ret = 0 THEN "wait_high" ELSE "wait_low"
  /\ wire' = <<>>
  /\ last' = "none"
  /\ UNCHANGED <<opts, mouse, ev, inq, narrived, nflush, clock, nticks, time_target,
                 prev, argv, optind>>

\* mouse_ident: wait_pin_state(fd, TIOCM_CTS, 1), one poll
WaitPinHigh ==
  /\ pc = "wait_high"
  /\ \E reg \in PinRegisters, ok \in BOOLEAN :
       LET p == Poll(reg, TIOCM_CTS, ok)
       IN  /\ seen' = IF p.ret = 1 THEN Append(seen, p) ELSE seen
           /\ pc' = IF p.ret = 1 THEN "ident_write" ELSE "wait_high"
  /\ wire' = <<>>
  /\ last' = "none"
  /\ UNCHANGED <<opts, mouse, ev, inq, narrived, nflush, clock, nticks, time_target,
                 prev, argv, optind>>

\* mouse_ident: the identification bytes are written
IdentWrite ==
  /\ pc = "ident_write"
  /\ wire' = IdentBytes(opts.wheel)
  /\ last' = "ident"
  /\ pc' = IF opts.immediate # 0 THEN "head" ELSE "read"
  /\ seen' = <<>>
  /\ UNCHANGED <<opts, mouse, ev, inq, narrived, nflush, clock, nticks, time_target,
                 prev, argv, optind>>

\* libevdev_next_event and the dispatch of the event it returned
ReadEvent ==
  /\ pc = "read"
  /\ IF inq = <<>>
       THEN /\ pc' = "head"
            /\ UNCHANGED <<ev, inq, mouse>>
       ELSE /\ ev' = Head(inq)
            /\ inq' = Tail(inq)
            /\ mouse' = Dispatch(mouse, Head(inq), opts.wheel)
            /\ pc' = "check"
  /\ wire' = <<>>
  /\ last' = "none"
  /\ UNCHANGED <<opts, narrived, nflush, clock, nticks, time_target,
                 prev, argv, optind, seen>>

\* clock_gettime, timespec_diff, the flush test and the packet encoding
FlushCheck ==
  /\ pc = "check"
  /\ IF FlushCondition(timespec_diff(time_target, clock), mouse)
       THEN /\ mouse' = [mouse EXCEPT !.state = EncodePacket(mouse)]
            /\ pc' = "send"
       ELSE /\ mouse' = mouse
            /\ pc' = "head"
  /\ wire' = <<>>
  /\ last' = "none"
  /\ UNCHANGED <<opts, ev, inq, narrived, nflush, clock, nticks, time_target,
                 prev, argv, optind, seen>>

\* the send loop, the new deadline and the reset of the transient state
SendUpdate ==
  /\ pc = "send"
  /\ wire' = SentBytes(mouse)
  /\ time_target' = get_target_time(clock, NextDelay(mouse))
  /\ mouse' = ResetAfterFlush(mouse)
  /\ nflush' = nflush + 1
  /\ last' = "flush"
  /\ prev' = [at |-> clock, len |-> Len(SentBytes(mouse))]
  /\ pc' = "head"
  /\ UNCHANGED <<opts, ev, inq, narrived, clock, nticks,
                 argv, optind, seen>>

\* the monotonic clock advances
Tick ==
  /\ nticks < MaxTicks
  /\ \E d \in ClockSteps : clock' = AddNanos(clock, d)
  /\ nticks' = nticks + 1
  /\ UNCHANGED <<opts, mouse, ev, inq, narrived, nflush, time_target, pc, wire, last,
                 prev, argv, optind, seen>>

\* the device delivers an event
Arrive ==
  /\ narrived < MaxEvents
  /\ Len(inq) < MaxQueue
  /\ \E e \in Events : inq' = Append(inq, e)
  /\ narrived' = narrived + 1
  /\ UNCHANGED <<opts, mouse, ev, nflush, clock, nticks, time_target, pc, wire, last,
                 prev, argv, optind, seen>>

Program ==
  \/ Start
  \/ LoopHead
  \/ WaitPinLow
  \/ WaitPinHigh
  \/ IdentWrite
  \/ ReadEvent
  \/ FlushCheck
  \/ SendUpdate

Next ==
  \/ Program
  \/ Tick
  \/ Arrive

Spec == Init /\ [][Next]_vars

(***************************************************************************)
(* The flush of one iteration, started at the flush test for every value   *)
(* the accumulators can hold when a right-button release has just been     *)
(* read: x and y over their whole range, or wheel over its whole range.    *)
(***************************************************************************)
EncMouseXY(bx, by, lb) ==
  [state |-> init_mouse_state, x |-> bx, y |-> by, wheel |-> 0, update |-> 2,
   lmb |-> lb, rmb |-> 0, mmb |-> 0, force_update |-> 1]

EncMouseWheel(bx, by, w, mb) ==
  [state |-> init_mouse_state, x |-> bx, y |-> by, wheel |-> w,
   update |-> IF mb # 0 THEN 3 ELSE 2,
   lmb |-> 1, rmb |-> 0, mmb |-> mb, force_update |-> 1]

EncInit ==
  /\ opts \in {o \in ParsedOpts : o.wheel = 1 /\ o.immediate = 1}
  /\ \/ \E bx \in -127..127, by \in -127..127, lb \in {0, 1, 7} :
          mouse = EncMouseXY(bx, by, lb)
     \/ \E bx \in {0, 5}, by \in {0, -3}, w \in -15..15, mb \in {0, 1} :
          mouse = EncMouseWheel(bx, by, w, mb)
  /\ ev = Event("EV_KEY", "BTN_RIGHT", 0)
  /\ inq = <<>>
  /\ narrived = 1
  /\ nflush = 0
  /\ clock = [tv_sec |-> 0, tv_nsec |-> 0]
  /\ nticks = 0
  /\ time_target = get_target_time(clock, SERIALDELAY_3B)
  /\ pc = "check"
  /\ wire = <<>>
  /\ last = "none"
  /\ seen = <<>>
  /\ prev = NoFlush
  /\ argv = <<>>
  /\ optind = 0

EncNext ==
  \/ FlushCheck
  \/ SendUpdate

EncSpec == EncInit /\ [][EncNext]_vars

(***************************************************************************)
(* The end-to-end scenario: the device holds LMB down, moveX(+10),         *)
(* moveY(-5) and delivers nothing else; the wheel option is disabled.      *)
(***************************************************************************)
Scenario ==
  << Event("EV_KEY", "BTN_LEFT", 1),
     Event("EV_REL", "REL_X", 10),
     Event("EV_REL", "REL_Y", -5) >>

ScenInit ==
  /\ opts \in {o \in ParsedOpts : o.wheel = 0}
  /\ \E u \in UninitMouse : mouse = MouseAtEntry(u)
  /\ ev = NoEvent
  /\ inq = Scenario
  /\ narrived = Len(Scenario)
  /\ nflush = 0
  /\ clock \in ClockStarts
  /\ nticks = 0
  /\ time_target = get_target_time(clock, SERIALDELAY_3B)
  /\ pc = "start"
  /\ wire = <<>>
  /\ last = "none"
  /\ seen = <<>>
  /\ prev = NoFlush
  /\ argv = <<>>
  /\ optind = 0

ScenNext ==
  \/ Program
  \/ Tick

ScenSpec == ScenInit /\ [][ScenNext]_vars

\* main() is a single thread that never stops taking its next step, and the
\* monotonic clock keeps advancing; the device is free to stay silent.
\* The runs taken are those with the wheel option on, a zeroed stack and the
\* clock started at 0.
FairInit ==
  /\ Init
  /\ opts.wheel = 1
  /\ mouse.x = 0 /\ mouse.force_update = 0
  /\ clock = [tv_sec |-> 0, tv_nsec |-> 0]

FairSpec == FairInit /\ [][Next]_vars /\ WF_vars(Program) /\ WF_vars(Tick)

\* The runs of the program in which the stack under `mouse_state_t mouse`
\* happened to hold zeros.
ZeroStackInit ==
  /\ Init
  /\ mouse.x = 0 /\ mouse.force_update = 0

ZeroStackSpec == ZeroStackInit /\ [][Next]_vars

(***************************************************************************)
(* The basic protocol: the wheel option is disabled (-w) and the stack     *)
(* under `mouse_state_t mouse` held 0 where mmb lies; the other fields     *)
(* that main() leaves unset are all zero or not.                           *)
(***************************************************************************)
BasicStacks ==
  { [x |-> 0, y |-> 0, wheel |-> 0, update |-> 0,
     lmb |-> 0, rmb |-> 0, mmb |-> 0, force_update |-> 0],
    [x |-> 0, y |-> 0, wheel |-> 40, update |-> 7,
     lmb |-> 0, rmb |-> 0, mmb |-> 0, force_update |-> 1] }

BasicInit ==
  /\ opts \in {o \in ParsedOpts : o.wheel = 0}
  /\ \E u \in BasicStacks : mouse = MouseAtEntry(u)
  /\ ev = NoEvent
  /\ inq = <<>>
  /\ narrived = 0
  /\ nflush = 0
  /\ clock \in ClockStarts
  /\ nticks = 0
  /\ time_target = get_target_time(clock, SERIALDELAY_3B)
  /\ pc = "start"
  /\ wire = <<>>
  /\ last = "none"
  /\ seen = <<>>
  /\ prev = NoFlush
  /\ argv = <<>>
  /\ optind = 0

BasicSpec == BasicInit /\ [][Next]_vars

(***************************************************************************)
(* get_pin on its own: called with any register content, any of the masks  *)
(* the program passes or could pass over CTS and DSR, and an ioctl that    *)
(* succeeds or fails.  seen collects the calls.                            *)
(***************************************************************************)
PinMasks == {TIOCM_CTS, TIOCM_DSR, TIOCM_CTS \cup TIOCM_DSR}

PinInit ==
  /\ opts \in {o \in ParsedOpts : o.wheel = 1 /\ o.immediate = 0}
  /\ mouse \in {MouseAtEntry(u) : u \in {v \in UninitMouse : v.force_update = 0}}
  /\ ev = NoEvent
  /\ inq = <<>>
  /\ narrived = 0
  /\ nflush = 0
  /\ clock = [tv_sec |-> 0, tv_nsec |-> 0]
  /\ nticks = 0
  /\ time_target = get_target_time(clock, SERIALDELAY_3B)
  /\ pc = "get_pin"
  /\ wire = <<>>
  /\ last = "none"
  /\ seen = <<>>
  /\ prev = NoFlush
  /\ argv = <<>>
  /\ optind = 0

GetPinCall ==
  /\ pc = "get_pin"
  /\ Len(seen) < MaxPolls
  /\ \E reg \in PinRegisters, flag \in PinMasks, ok \in BOOLEAN :
       seen' = Append(seen, Poll(reg, flag, ok))
  /\ UNCHANGED <<opts, mouse, ev, inq, narrived, nflush, clock, nticks, time_target,
                 pc, wire, last, prev, argv, optind>>

PinNext == GetPinCall

PinSpec == PinInit /\ [][PinNext]_vars

(***************************************************************************)
(* parse_opts: the command line is a sequence of option letters as getopt  *)
(* returns them ("?" for a letter outside "hm:s:weid"); -m and -s come     *)
(* with their path.  struct opts has just been zeroed by calloc.           *)
(***************************************************************************)
OptionLetters == {"h", "m", "s", "w", "e", "i", "d", "?"}

RECURSIVE CommandLines(_)
CommandLines(n) ==
  IF n = 0 THEN {<<>>}
  ELSE LET shorter == CommandLines(n - 1)
       IN  shorter \cup {Append(a, c) : a \in shorter, c \in OptionLetters}

\* one pass of the while loop for the option letter c
parse_opts_option(options, c) ==
  LET o == [options EXCEPT !.wheel = 1, !.exclusive = 1]
  IN  CASE c = "m" -> [o EXCEPT !.mousepath = 1]
        [] c = "s" -> [o EXCEPT !.serialpath = 1]
        [] c = "w" -> [o EXCEPT !.wheel = 0]
        [] c = "e" -> [o EXCEPT !.exclusive = 0]
        [] c = "i" -> [o EXCEPT !.immediate = 1]
        [] c = "d" -> [o EXCEPT !.debug = 1]
        [] OTHER   -> o

ParseInit ==
  /\ opts = [mousepath |-> 0, serialpath |-> 0, wheel |-> 0, exclusive |-> 0,
             immediate |-> 0, debug |-> 0]
  /\ argv \in CommandLines(MaxArgs) \ {<<>>}
  /\ optind = 0
  /\ pc = "getopt"
  /\ mouse \in {MouseAtEntry(u) : u \in {v \in UninitMouse : v.force_update = 0}}
  /\ ev = NoEvent
  /\ inq = <<>>
  /\ narrived = 0
  /\ nflush = 0
  /\ clock = [tv_sec |-> 0, tv_nsec |-> 0]
  /\ nticks = 0
  /\ time_target = get_target_time(clock, SERIALDELAY_3B)
  /\ wire = <<>>
  /\ last = "none"
  /\ seen = <<>>
  /\ prev = NoFlush

\* getopt returns the next option: the body of the while loop
ParseOptsLoop ==
  /\ pc = "getopt"
  /\ optind < Len(argv)
  /\ opts' = parse_opts_option(opts, argv[optind + 1])
  /\ optind' = optind + 1
  /\ pc' = IF argv[optind + 1] = "h" THEN "exit" ELSE "getopt"
  /\ UNCHANGED <<mouse, ev, inq, narrived, nflush, clock, nticks, time_target,
                 wire, last, seen, prev, argv>>

\* getopt returns -1: the two path tests, exit(0) or return to main
ParseOptsEnd ==
  /\ pc = "getopt"
  /\ optind = Len(argv)
  /\ pc' = IF opts.mousepath = 0 \/ opts.serialpath = 0 THEN "exit" ELSE "parsed"
  /\ UNCHANGED <<opts, mouse, ev, inq, narrived, nflush, clock, nticks, time_target,
                 wire, last, seen, prev, argv, optind>>

ParseNext ==
  \/ ParseOptsLoop
  \/ ParseOptsEnd

ParseSpec == ParseInit /\ [][ParseNext]_vars

(***************************************************************************)
(* Properties                                                              *)
(***************************************************************************)
nread == narrived - Len(inq)

\* t1 is strictly earlier than t2
TimeBefore(t1, t2) ==
  \/ t1.tv_sec < t2.tv_sec
  \/ t1.tv_sec = t2.tv_sec /\ t1.tv_nsec < t2.tv_nsec

ButtonEvent(e) ==
  /\ e.type = "EV_KEY"
  /\ \/ e.code \in {"BTN_LEFT", "BTN_RIGHT"}
     \/ e.code = "BTN_MIDDLE" /\ opts.wheel # 0

\* C1: every identification writes exactly 0x4D 0x5A when the wheel option
\* is enabled and exactly 0x4D when it is disabled, and nothing else.
C1_IdentPayload ==
  last = "ident" => wire = IF opts.wheel # 0 THEN <<77, 90>> ELSE <<77>>

\* C2: between two flushes the pending length (mouse.update) never goes
\* down: from 4 bytes (3) it stays 4 bytes, from 3 bytes (2) it never
\* returns to none (-1) or anything else below.
C2_PendingMonotone ==
  [][pc # "send" =>
       /\ mouse.update = 3 => mouse'.update = 3
       /\ mouse.update = 2 => mouse'.update \in {2, 3}]_vars

\* C3: at the flush test the program goes on to send a packet only if
\* force_update is set, or the clock is past time_target and an update is
\* pending; when neither holds nothing is written and x, y, wheel are kept.
C3_RateLimit ==
  [][pc = "check" =>
       LET due == \/ mouse.force_update # 0
                  \/ TimeBefore(time_target, clock) /\ mouse.update # -1
       IN  /\ pc' = "send" => due
           /\ ~due => /\ pc' # "send"
                      /\ wire' = <<>>
                      /\ last' # "flush"
                      /\ mouse'.x = mouse.x
                      /\ mouse'.y = mouse.y
                      /\ mouse'.wheel = mouse.wheel]_vars

\* an iteration read a motion event before the deadline and ended unflushed
C3_Witness ==
  /\ pc = "head"
  /\ last = "none"
  /\ ev = Event("EV_REL", "REL_X", 100)
  /\ mouse.update = 2
  /\ mouse.force_update = 0
  /\ mouse.x = 100
  /\ ~TimeBefore(time_target, clock)

\* C4: a left or right button event, or a middle button event with the
\* wheel option enabled, is followed in the same iteration by the flush,
\* which transmits a packet whatever the clock says and clears force_update.
C4_ForcedFlush ==
  [][ButtonEvent(ev) =>
       /\ pc = "check" /\ pc' # "check" => pc' = "send"
       /\ pc = "send" /\ pc' # "send" =>
            /\ pc' = "head"
            /\ last' = "flush"
            /\ Len(wire') \in {3, 4}
            /\ mouse'.force_update = 0]_vars

\* a right-button event was flushed although the clock never advanced
C4_Witness ==
  /\ last = "flush"
  /\ ev = Event("EV_KEY", "BTN_RIGHT", 1)
  /\ nticks = 0
  /\ Len(wire) = 3
  /\ mouse.force_update = 0

\* the latest iteration read a motion or wheel event, accumulated it and
\* ended without a flush
MotionUnsent ==
  /\ pc = "head"
  /\ last = "none"
  /\ ev.type = "EV_REL"
  /\ \/ ev.code = "REL_X" /\ mouse.x # 0
     \/ ev.code = "REL_Y" /\ mouse.y # 0
     \/ ev.code = "REL_WHEEL" /\ opts.wheel # 0 /\ mouse.wheel # 0
  /\ mouse.update \in {2, 3}

\* C5: accumulated motion that has not been transmitted is eventually
\* flushed once the deadline has passed, even if no further event arrives.
C5_FlushLiveness ==
  (MotionUnsent /\ TimeBefore(time_target, clock)) ~> (last = "flush")

\* a byte read as a signed 8-bit value
Signed8(b) == IF b >= 128 THEN b - 256 ELSE b

\* C6: for x and y in [-127,127] the packet that is flushed has byte1 =
\* x & 0x3F, byte2 = y & 0x3F, bits 1-0 of byte0 = bits 7-6 of x, bits 3-2
\* of byte0 = bits 7-6 of y, so x and y are recovered from the three bytes.
C6_MotionRoundTrip ==
  (pc = "send" /\ mouse.x \in -127..127 /\ mouse.y \in -127..127) =>
    LET b0 == mouse.state[1]
        b1 == mouse.state[2]
        b2 == mouse.state[3]
    IN  /\ b1 = mouse.x % 64
        /\ b2 = mouse.y % 64
        /\ b0 % 4 = (mouse.x % 256) \div 64
        /\ (b0 \div 4) % 4 = (mouse.y % 256) \div 64
        /\ Signed8((b0 % 4) * 64 + b1) = mouse.x
        /\ Signed8(((b0 \div 4) % 4) * 64 + b2) = mouse.y

\* x = 5, y = -3 with the left button down: 0x6C 0x05 0x3D
C6_Witness ==
  /\ pc = "send"
  /\ mouse.x = 5
  /\ mouse.y = -3
  /\ mouse.lmb = 1
  /\ mouse.state = <<108, 5, 61, 0>>

\* C7: for wheel in [-15,15] the low 4 bits of packet byte 3 are
\* (-wheel) & 0x0F: 13 for wheel = 3, 3 for wheel = -3.
C7_WheelNibble ==
  (pc = "send" /\ mouse.wheel \in -15..15) =>
    /\ mouse.state[4] % 16 = (-mouse.wheel) % 16
    /\ mouse.wheel = 3 => mouse.state[4] % 16 = 13
    /\ mouse.wheel = -3 => mouse.state[4] % 16 = 3

\* wheel = 3 with the middle button down: byte 3 is 0x1D
C7_Witness ==
  /\ pc = "send"
  /\ mouse.wheel = 3
  /\ mouse.mmb = 1
  /\ mouse.state[4] = 29

\* C8: right after a flush x = y = wheel = 0, no update is pending,
\* force_update is clear, the packet buffer is the template and the three
\* button latches are what they were just before the flush.
C8_ResetAfterFlush ==
  [][pc = "send" /\ pc' # "send" =>
       /\ last' = "flush"
       /\ mouse'.x = 0 /\ mouse'.y = 0 /\ mouse'.wheel = 0
       /\ mouse'.update = -1
       /\ mouse'.force_update = 0
       /\ mouse'.state = <<64, 0, 0, 0>>
       /\ mouse'.lmb = mouse.lmb
       /\ mouse'.rmb = mouse.rmb
       /\ mouse'.mmb = mouse.mmb]_vars

\* a flush has just sent a 4-byte packet with buttons down; they are
\* still latched
C8_Witness ==
  /\ last = "flush"
  /\ Len(wire) = 4
  /\ mouse.lmb = 1
  /\ mouse.mmb = 1
  /\ mouse.x = 0 /\ mouse.y = 0 /\ mouse.wheel = 0
  /\ mouse.update = -1
  /\ mouse.state = <<64, 0, 0, 0>>

\* C9: in every state of the main loop x and y are within [-127,127] and
\* wheel is within [-15,15].
C9_AccumulatorRange ==
  /\ mouse.x \in -127..127
  /\ mouse.y \in -127..127
  /\ mouse.wheel \in -15..15

ScenDone == inq = <<>> /\ pc = "head"

\* C10 as stated: for [LMB down, moveX(+10), moveY(-5)] with the wheel
\* disabled exactly one flush occurs; it is forced, sends the 3 bytes
\* 0x6C 0x0A 0x3B (LMB bit, top bits of X = 10 and Y = -5, 10 & 0x3F,
\* (-5) & 0x3F), and the accumulators are zero afterwards.
C10_OneFlushCarriesMotion ==
  /\ pc = "send" =>
       /\ nflush = 0
       /\ mouse.force_update # 0
       /\ mouse.update = 2
       /\ mouse.state[1] = 108
       /\ mouse.state[2] = 10
       /\ mouse.state[3] = 59
  /\ ScenDone /\ nread = 3 =>
       /\ nflush = 1
       /\ mouse.x = 0 /\ mouse.y = 0 /\ mouse.wheel = 0

\* C10 as amended: the LMB transition forces a flush in the iteration that
\* reads it, before either motion event is read; that flush sends at least
\* 3 bytes with the LMB bit set in byte0.  The motion events are sent only
\* by later flushes, which are not forced and need the deadline to have
\* passed; such a flush carries byte1 = x & 0x3F, byte2 = y & 0x3F of what
\* was accumulated since (x = 10 gives 10, y = -5 gives 59).  Between one
\* and three flushes occur and the accumulators are zero after each.
C10_ScenarioFlushes ==
  /\ (pc = "check" /\ nread = 1) => (nflush = 0 /\ mouse.force_update = 1)
  /\ (pc = "send" /\ nread = 1) =>
       /\ nflush = 0
       /\ mouse.force_update = 1
       /\ mouse.update \in {2, 3}
       /\ (mouse.state[1] \div 32) % 2 = 1
  /\ nread >= 2 => nflush >= 1
  /\ (pc = "send" /\ nread >= 2) =>
       /\ mouse.force_update = 0
       /\ TimeBefore(time_target, clock)
       /\ mouse.x \in {0, 10} /\ mouse.y \in {0, -5}
       /\ mouse.state[2] = mouse.x % 64
       /\ mouse.state[3] = mouse.y % 64
       /\ mouse.x = 10 => mouse.state[2] = 10
       /\ mouse.y = -5 => mouse.state[3] = 59
       /\ (mouse.state[1] \div 32) % 2 = 1
  /\ last = "flush" => (mouse.x = 0 /\ mouse.y = 0 /\ mouse.wheel = 0)
  /\ nflush <= 3
  /\ ScenDone /\ nread = 3 => nflush >= 1

\* the whole scenario has been read, the forced flush came first and a
\* later flush, past the deadline, has just sent both motions together
C10_Witness ==
  /\ ScenDone
  /\ nread = 3
  /\ nflush = 2
  /\ last = "flush"
  /\ wire = <<108, 10, 59>>

(***************************************************************************)
(* Deferred identification                                                 *)
(***************************************************************************)
\* a successful read of the modem lines that found CTS and DSR both low
BothLow(p) == p.ok /\ "CTS" \notin p.reg /\ "DSR" \notin p.reg

\* a successful read of the modem lines that found CTS high
CtsHigh(p) == p.ok /\ "CTS" \in p.reg

\* C11: with immediate mode off, identification bytes are written only by
\* a mouse_ident call that first observed CTS and DSR both low and after
\* that observed CTS high; while the call is still waiting for either
\* observation nothing is written, and the second wait is entered only
\* once the first observation has been made.
C11_DeferredIdentOrder ==
  /\ [](pc = "wait_low" => (seen = <<>> /\ wire = <<>>))
  /\ [](pc = "wait_high" => (Len(seen) = 1 /\ BothLow(seen[1]) /\ wire = <<>>))
  /\ [][(opts.immediate = 0 /\ pc' # pc /\ last' = "ident") =>
          /\ pc = "ident_write"
          /\ Len(seen) = 2
          /\ BothLow(seen[1])
          /\ CtsHigh(seen[2])
          /\ wire' = IdentBytes(opts.wheel)]_vars
  /\ [][(pc \in {"wait_low", "wait_high"} /\ pc' # pc) =>
          \/ pc = "wait_low" /\ pc' = "wait_high"
          \/ pc = "wait_high" /\ pc' = "ident_write"]_vars

\* the host has asked again in mid-run: after a flush both lines were seen
\* low, then CTS high, and the identification has just been written
C11_Witness ==
  /\ opts.immediate = 0
  /\ last = "ident"
  /\ wire # <<>>
  /\ nflush >= 1

(***************************************************************************)
(* The deadline set by a flush                                             *)
(***************************************************************************)
\* C12: every flush sets the next deadline to the monotonic time read at
\* that moment plus SERIALDELAY_4B when the middle button is latched, and
\* plus SERIALDELAY_3B otherwise.
C12_DeadlineCadence ==
  [][(pc = "send" /\ pc' # pc) =>
       /\ last' = "flush"
       /\ time_target' =
            AddNanos(clock, IF mouse.mmb # 0 THEN SERIALDELAY_4B ELSE SERIALDELAY_3B)
       /\ ~TimeBefore(time_target', clock)]_vars

\* a flush with the middle button latched has just set a deadline 30 ms
\* ahead, across a full second of the clock
C12_Witness ==
  /\ last = "flush"
  /\ mouse.mmb # 0
  /\ time_target = AddNanos(clock, SERIALDELAY_4B)
  /\ time_target.tv_sec = clock.tv_sec + 1

(***************************************************************************)
(* get_pin                                                                 *)
(***************************************************************************)
\* C13 as stated: get_pin returns 1 exactly when all lines of the mask are
\* set, so for the mask CTS|DSR it returns 0 as soon as one of the two is
\* low; it returns -1 when the register query fails.
C13_GetPinAllBits ==
  \A i \in 1..Len(seen) :
    LET p == seen[i]
    IN  /\ ~p.ok => p.ret = -1
        /\ p.ok => (p.ret = 1 <=> p.flag \subseteq p.reg)
        /\ (p.ok /\ p.flag = {"CTS", "DSR"} /\ p.flag \ p.reg # {}) => p.ret = 0

\* C13 as the code has it: get_pin returns 1 exactly when at least one line
\* of the mask is set, 0 exactly when the query succeeded and every line of
\* the mask is low, and -1 exactly when the register query fails.
C13_GetPinAnyBit ==
  \A i \in 1..Len(seen) :
    LET p == seen[i]
    IN  /\ p.ret \in {-1, 0, 1}
        /\ p.ret = -1 <=> ~p.ok
        /\ p.ret = 1 <=> (p.ok /\ \E line \in p.flag : line \in p.reg)
        /\ p.ret = 0 <=> (p.ok /\ \A line \in p.flag : line \notin p.reg)

\* get_pin has been asked for CTS|DSR with CTS high and DSR low and has
\* answered 1; another call has failed
C13_Witness ==
  /\ \E i \in 1..Len(seen) :
       /\ seen[i].ok
       /\ seen[i].flag = {"CTS", "DSR"}
       /\ seen[i].reg = {"CTS"}
       /\ seen[i].ret = 1
  /\ \E i \in 1..Len(seen) : ~seen[i].ok /\ seen[i].ret = -1

(***************************************************************************)
(* Events the emulated mouse has no use for                                *)
(***************************************************************************)
\* an event that is none of: left or right button, middle button with the
\* wheel option on, REL_X, REL_Y, REL_WHEEL with the wheel option on
Unsupported(e) ==
  /\ ~ButtonEvent(e)
  /\ ~(e.type = "EV_REL" /\ e.code \in {"REL_X", "REL_Y"})
  /\ ~(e.type = "EV_REL" /\ e.code = "REL_WHEEL" /\ opts.wheel # 0)

\* C14: reading an unsupported event leaves x, y, wheel, the button
\* latches, update and force_update as they were, and the iteration that
\* read it transmits no packet.
C14_UnsupportedIgnored ==
  /\ [][(pc = "read" /\ pc' = "check" /\ Unsupported(ev')) =>
          /\ mouse'.x = mouse.x /\ mouse'.y = mouse.y /\ mouse'.wheel = mouse.wheel
          /\ mouse'.lmb = mouse.lmb /\ mouse'.rmb = mouse.rmb /\ mouse'.mmb = mouse.mmb
          /\ mouse'.update = mouse.update
          /\ mouse'.force_update = mouse.force_update]_vars
  /\ [](pc = "send" => ~Unsupported(ev))

(***************************************************************************)
(* The time between two flushes                                            *)
(***************************************************************************)
\* C15: when the latest flush wrote 4 bytes, a flush that no button event
\* forced does not happen before SERIALDELAY_4B has passed since then.
C15_ByteRateBudget ==
  (pc = "send" /\ mouse.force_update = 0 /\ prev.len = 4) =>
    ~TimeBefore(clock, AddNanos(prev.at, SERIALDELAY_4B))

(***************************************************************************)
(* The wheel nibble read back                                              *)
(***************************************************************************)
\* a 4-bit value read as two's complement
Signed4(n) == IF n >= 8 THEN n - 16 ELSE n

\* C16: for every non-zero wheel in [-15,15] the low nibble of packet byte
\* 3 tells the direction: it lies in 8..15 for a positive wheel and in 1..7
\* for a negative one, and read as 4-bit two's complement it is -wheel.
C16_WheelDirection ==
  (pc = "send" /\ mouse.wheel \in -15..15 /\ mouse.wheel # 0) =>
    LET n == mouse.state[4] % 16
    IN  /\ Signed4(n) = -mouse.wheel
        /\ mouse.wheel > 0 => n \in 8..15
        /\ mouse.wheel < 0 => n \in 1..7

(***************************************************************************)
(* Wheel motion and the packet length                                      *)
(***************************************************************************)
\* C17: a flush that resets a non-zero wheel to zero writes a 4-byte
\* packet, whatever the order of wheel, motion and button events.
C17_WheelNeverDiscarded ==
  [][(pc = "send" /\ pc' # pc /\ mouse.wheel # 0 /\ mouse'.wheel = 0) =>
       Len(wire') = 4]_vars

(***************************************************************************)
(* The basic protocol                                                      *)
(***************************************************************************)
\* C18: with the wheel option disabled and mmb 0 on entry, every flush
\* writes exactly 3 bytes, whatever events were read (middle-button and
\* wheel events included), and mmb and wheel never change.
C18_BasicPacketLength ==
  /\ [][(pc = "send" /\ pc' # pc) => Len(wire') = 3]_vars
  /\ [][mouse'.mmb = mouse.mmb /\ mouse'.wheel = mouse.wheel]_vars

(***************************************************************************)
(* The mouse state on entry to the loop                                    *)
(***************************************************************************)
\* C19: from the entry to the main loop until the first event has been
\* read, x, y and wheel are 0, the three button latches and force_update
\* are 0, and the packet buffer is the template 0x40 0x00 0x00 0x00.
C19_InitialMouseState ==
  nread = 0 =>
    /\ mouse.x = 0 /\ mouse.y = 0 /\ mouse.wheel = 0
    /\ mouse.lmb = 0 /\ mouse.rmb = 0 /\ mouse.mmb = 0
    /\ mouse.force_update = 0
    /\ mouse.state = <<64, 0, 0, 0>>

(***************************************************************************)
(* parse_opts                                                              *)
(***************************************************************************)
\* the option letter c occurs on the command line
Occurs(c) == \E i \in 1..Len(argv) : argv[i] = c

\* C20: when parse_opts returns, options->wheel is 0 exactly when -w was
\* given and options->exclusive is 0 exactly when -e was given, whatever
\* options come after them.
C20_OptionOrderIndependent ==
  pc = "parsed" =>
    /\ opts.wheel = 0 <=> Occurs("w")
    /\ opts.exclusive = 0 <=> Occurs("e")

====
